---- MODULE Spec2Model ----
(***************************************************************************)
(* Vocabulary matching pipeline of the DK illustrated dictionary scripts   *)
(* (scripts/process_full_book.py, regenerate_data.py,                      *)
(* update_first_19_pages.py and preprocess_pdf.py).                        *)
(*                                                                         *)
(* A text is a sequence of one-character strings.  A normalised coordinate *)
(* is held as its numerator in pixels over the image size of the page      *)
(* (x / img_width, y / img_height), so that the division of the source     *)
(* stays exact.  A confidence is held in hundredths (1.0 is 100).          *)
(***************************************************************************)
EXTENDS Integers, Sequences, FiniteSets, TLC

VARIABLES script, pc, cur_line, lines_read, single_word_vocab,
          multi_word_vocab, vocabulary, iter_order, page_num, result,
          img_height, words, lines, english_words, matched_words,
          single_word_matches, multi_word_matches, matched_phrases,
          line_idx, phrase_idx, all_pages_data, data_json, vocab_source,
          error, attempt, retry_delay, sleeps, ocr_calls, ocr_log, skipped

vars == <<script, pc, cur_line, lines_read, single_word_vocab,
          multi_word_vocab, vocabulary, iter_order, page_num, result,
          img_height, words, lines, english_words, matched_words,
          single_word_matches, multi_word_matches, matched_phrases,
          line_idx, phrase_idx, all_pages_data, data_json, vocab_source,
          error, attempt, retry_delay, sleeps, ocr_calls, ocr_log, skipped>>

\* The state of the OCR retry loop of a page.
retry_vars == <<attempt, retry_delay, sleeps, ocr_calls>>

\* What the run has seen and reported so far.
run_vars == <<vocab_source, error, ocr_log, skipped>>

(***************************************************************************)
(* Bounds of the model.                                                    *)
(***************************************************************************)
MaxVocabLines == 3
NumPages == 2

(***************************************************************************)
(* Constants of the scripts.                                               *)
(***************************************************************************)
\* max_retries = 3
max_retries == 3

\* retry_delay = 5 (seconds)
InitialRetryDelay == 5

(***************************************************************************)
(* Characters and the str methods the scripts use.                         *)
(***************************************************************************)
LowerChars == <<"a","b","c","d","e","f","g","h","i","j","k","l","m",
                "n","o","p","q","r","s","t","u","v","w","x","y","z">>

UpperChars == <<"A","B","C","D","E","F","G","H","I","J","K","L","M",
                "N","O","P","Q","R","S","T","U","V","W","X","Y","Z">>

Range(s) == {s[i] : i \in 1..Len(s)}

AsciiLetters == Range(LowerChars) \cup Range(UpperChars)

Digits == {"0","1","2","3","4","5","6","7","8","9"}

\* Letters outside ASCII that occur in the model's texts, each written as its
\* code point: e acute and three CJK ideographs.
UnicodeLetters == {"U+00E9", "U+4F60", "U+597D", "U+624B"}

\* str.isspace() characters that occur in the model's texts.
Whitespace == {" ", "\t", "\n", "\r"}

\* The characters re.escape() puts a backslash in front of.
EscapeSpecial == {"(", ")", "[", "]", "{", "}", "?", "*", "+", "-", "|",
                  "^", "$", "\\", ".", "&", "~", "#", " ", "\t", "\n", "\r"}

\* \w of a str pattern: Unicode alphanumerics and the underscore.
IsWordChar(c) == c \in AsciiLetters \cup Digits \cup UnicodeLetters \cup {"_"}

\* str.lower() of one character.
LowerChar(c) ==
    IF c \in Range(UpperChars)
    THEN LowerChars[CHOOSE i \in 1..26 : UpperChars[i] = c]
    ELSE c

\* str.lower()
Lower(t) == [i \in 1..Len(t) |-> LowerChar(t[i])]

\* str.strip(): drop leading and trailing whitespace.
Strip(t) ==
    LET keep == {i \in 1..Len(t) : t[i] \notin Whitespace}
    IN  IF keep = {} THEN <<>>
        ELSE LET lo == CHOOSE i \in keep : \A j \in keep : i <= j
                 hi == CHOOSE i \in keep : \A j \in keep : j <= i
             IN  SubSeq(t, lo, hi)

\* str.startswith(c) for a one-character prefix.
StartsWith(t, c) == Len(t) >= 1 /\ t[1] = c

\* c in t
Contains(t, c) == \E i \in 1..Len(t) : t[i] = c

(***************************************************************************)
(* Regular expressions: the pattern text is parsed into elements, which    *)
(* are then matched.  Of the pattern syntax the model knows the backslash  *)
(* escapes, the \b assertion and the '.' wildcard.                         *)
(***************************************************************************)
\* The phrase put into the pattern as it is.
ReEscape_Identity(p) == p

RECURSIVE ReEscape(_)
\* re.escape(): a backslash before every special character.
ReEscape(p) ==
    IF p = <<>> THEN <<>>
    ELSE (IF Head(p) \in EscapeSpecial THEN <<"\\", Head(p)>> ELSE <<Head(p)>>)
         \o ReEscape(Tail(p))

RECURSIVE ReCompile(_)
\* Parse of a pattern text into elements.
ReCompile(pat) ==
    IF pat = <<>> THEN <<>>
    ELSE IF Head(pat) = "\\" /\ Len(pat) >= 2
         THEN (IF pat[2] = "b" THEN <<[kind |-> "b", ch |-> ""]>>
               ELSE <<[kind |-> "lit", ch |-> pat[2]]>>)
              \o ReCompile(SubSeq(pat, 3, Len(pat)))
         ELSE (IF Head(pat) = "." THEN <<[kind |-> "any", ch |-> ""]>>
               ELSE <<[kind |-> "lit", ch |-> Head(pat)]>>)
              \o ReCompile(Tail(pat))

\* \b at position pos: exactly one of the characters before and at pos is a
\* word character; outside the text there is none.
AtBoundary(t, pos) ==
    LET before == pos >= 2 /\ pos - 1 <= Len(t) /\ IsWordChar(t[pos - 1])
        after  == pos >= 1 /\ pos <= Len(t) /\ IsWordChar(t[pos])
    IN  before # after

RECURSIVE MatchFrom(_, _, _, _)
\* Do the elements els[i..] match t from position pos on?
MatchFrom(els, i, t, pos) ==
    IF i > Len(els) THEN TRUE
    ELSE IF els[i].kind = "b"
         THEN AtBoundary(t, pos) /\ MatchFrom(els, i + 1, t, pos)
         ELSE /\ pos <= Len(t)
              /\ IF els[i].kind = "lit" THEN t[pos] = els[i].ch
                 ELSE t[pos] # "\n"
              /\ MatchFrom(els, i + 1, t, pos + 1)

\* re.search(pattern, t)
ReSearch(pat, t) ==
    LET els == ReCompile(pat)
    IN  \E pos \in 1..(Len(t) + 1) : MatchFrom(els, 1, t, pos)

\* english_pattern = re.compile(r'^[a-zA-Z]+$'); english_pattern.match(t).
\* '$' matches at the end of the text and also before a final newline.
EnglishPatternMatch(t) ==
    \E k \in 1..Len(t) :
        /\ \A i \in 1..k : t[i] \in AsciiLetters
        /\ \/ k = Len(t)
           \/ k = Len(t) - 1 /\ t[Len(t)] = "\n"

\* pattern = r'\b' + re.escape(vocab_phrase) + r'\b'
PhrasePattern(vocab_phrase) == <<"\\", "b">> \o ReEscape(vocab_phrase) \o <<"\\", "b">>

\* A search for the phrase as a plain substring, without the \b assertions.
PhraseFound_Substring(vocab_phrase, line_lower) ==
    ReSearch(ReEscape(vocab_phrase), line_lower)

\* re.search(pattern, line_lower)
PhraseFound(vocab_phrase, line_lower) ==
    ReSearch(PhrasePattern(vocab_phrase), line_lower)

(***************************************************************************)
(* Texts of the inputs: T_ token contents and vocabulary entries, L_ line  *)
(* contents, V_ raw lines of vocabulary-list.csv (with their newline).     *)
(***************************************************************************)
T_cat ==
    <<"c","a","t">>

T_Cat ==
    <<"C","a","t">>

T_CAT ==
    <<"C","A","T">>

T_cat_nl ==
    <<"c","a","t","\n">>

T_dog ==
    <<"d","o","g">>

T_Dog ==
    <<"D","o","g">>

T_123 ==
    <<"1","2","3">>

T_its ==
    <<"i","t","'","s">>

T_eclair ==
    <<"U+00E9","c","l","a","i","r">>

T_nihao ==
    <<"U+4F60","U+597D">>

T_the ==
    <<"t","h","e">>

T_index ==
    <<"i","n","d","e","x">>

T_finger ==
    <<"f","i","n","g","e","r">>

T_points ==
    <<"p","o","i","n","t","s">>

T_at ==
    <<"a","t">>

T_index_finger ==
    <<"i","n","d","e","x"," ","f","i","n","g","e","r">>

T_3_5_mm ==
    <<"3",".","5"," ","m","m">>

T_a_tab_b ==
    <<"a","\t","b">>

L_scenario ==
    <<"t","h","e"," ","i","n","d","e","x"," ","f","i","n","g","e","r"," ",
      "p","o","i","n","t","s"," ","a","t"," ","t","h","e"," ","c","a",
      "t">>

L_Index_Finger ==
    <<"I","n","d","e","x"," ","F","i","n","g","e","r">>

L_index_finger ==
    <<"i","n","d","e","x"," ","f","i","n","g","e","r">>

L_index_fingers ==
    <<"i","n","d","e","x"," ","f","i","n","g","e","r","s">>

L_index_finger2 ==
    <<"i","n","d","e","x"," ","f","i","n","g","e","r","2">>

L_two_phrases ==
    <<"i","n","d","e","x"," ","f","i","n","g","e","r"," ","3",".","5"," ",
      "m","m">>

L_jack ==
    <<"t","h","e"," ","3",".","5"," ","m","m"," ","j","a","c","k">>

L_35_mm ==
    <<"3","5"," ","m","m">>

L_3x5_mm ==
    <<"3","x","5"," ","m","m">>

V_cat ==
    <<"c","a","t","\n">>

V_Index_Finger ==
    <<"I","n","d","e","x"," ","F","i","n","g","e","r","\n">>

V_index_finger ==
    <<"i","n","d","e","x"," ","f","i","n","g","e","r","\n">>

V_3_5_mm ==
    <<" "," ","3",".","5"," ","m","m"," ","\n">>

V_comment ==
    <<"#"," ","n","o","t","e","\n">>

V_blank ==
    <<"\n">>

V_indented_comment ==
    <<" ","#","x","\n">>

V_tab ==
    <<"a","\t","b","\n">>

(***************************************************************************)
(* Inputs.                                                                 *)
(***************************************************************************)
\* The raw lines vocabulary-list.csv is made of.
VocabLinePool ==
    {V_cat, V_Index_Finger, V_index_finger, V_3_5_mm, V_comment, V_blank,
     V_indented_comment, V_tab}

\* A polygon of 4 points around the box (x1, y1)-(x2, y2), in pixels.
Rect(x1, y1, x2, y2) ==
    <<[x |-> x1, y |-> y1], [x |-> x2, y |-> y1],
      [x |-> x2, y |-> y2], [x |-> x1, y |-> y2]>>

\* One word of page.words.  A missing polygon (None) is the empty sequence.
OcrWord(content, polygon, confidence) ==
    [content |-> content, polygon |-> polygon, confidence |-> confidence]

\* One line of page.lines.
OcrLine(content, polygon) == [content |-> content, polygon |-> polygon]

WordsScenario ==
    <<OcrWord(T_the, Rect(100, 369, 160, 399), 99),
      OcrWord(T_index, Rect(170, 369, 260, 399), 98),
      OcrWord(T_finger, Rect(270, 369, 380, 399), 97),
      OcrWord(T_points, Rect(390, 369, 500, 399), 96),
      OcrWord(T_at, Rect(510, 369, 540, 399), 95),
      OcrWord(T_the, Rect(550, 369, 610, 399), 94),
      OcrWord(T_cat, Rect(620, 369, 680, 399), 93)>>

WordsMixed ==
    <<OcrWord(T_Cat, Rect(100, 100, 160, 130), 99),
      OcrWord(T_123, Rect(170, 100, 230, 130), 90),
      OcrWord(T_its, Rect(240, 100, 300, 130), 91),
      OcrWord(T_eclair, Rect(310, 100, 400, 130), 92),
      OcrWord(T_nihao, Rect(410, 100, 470, 130), 93),
      OcrWord(T_Dog, Rect(480, 100, 540, 130), 94),
      OcrWord(T_cat_nl, Rect(550, 100, 610, 130), 95)>>

WordsNoGeometry ==
    <<OcrWord(T_cat, Rect(100, 100, 160, 130), 99),
      OcrWord(T_dog, <<>>, 90),
      OcrWord(T_CAT, <<[x |-> 240, y |-> 100], [x |-> 300, y |-> 130]>>, 91)>>

WordsShortPolygon ==
    <<OcrWord(T_CAT, <<[x |-> 240, y |-> 100], [x |-> 300, y |-> 130]>>, 91),
      OcrWord(T_dog, Rect(310, 100, 370, 130), 90)>>

LinesScenario == <<OcrLine(L_scenario, Rect(100, 369, 680, 399))>>

\* On an image 3000 pixels high, y = 369 and y = 370 both round to 0.123
\* and y = 371 rounds to 0.124.
LinesSameY ==
    <<OcrLine(L_Index_Finger, Rect(100, 369, 400, 399)),
      OcrLine(L_index_finger, Rect(500, 370, 800, 400)),
      OcrLine(L_index_finger, Rect(900, 371, 1200, 401))>>

LinesEscaping ==
    <<OcrLine(L_jack, Rect(100, 600, 500, 630)),
      OcrLine(L_35_mm, Rect(100, 700, 300, 730)),
      OcrLine(L_3x5_mm, Rect(100, 800, 300, 830))>>

LinesBoundaries ==
    <<OcrLine(L_two_phrases, Rect(100, 900, 700, 930)),
      OcrLine(L_index_fingers, Rect(100, 1000, 500, 1030)),
      OcrLine(L_index_finger2, Rect(100, 1100, 500, 1130))>>

\* The words and lines of the pages.
PagePool ==
    {<<WordsScenario, LinesScenario>>, <<WordsMixed, LinesSameY>>,
     <<WordsMixed, LinesEscaping>>, <<WordsShortPolygon, LinesBoundaries>>,
     <<WordsNoGeometry, LinesEscaping>>, <<(<<>>), (<<>>)>>}

\* What poller.result() and Image.open(image_path).size can be for a page.
OcrResults ==
    {[words |-> p[1], lines |-> p[2], img_width |-> 2000, img_height |-> 3000] :
        p \in PagePool}

Scripts ==
    {"process_full_book", "regenerate_data", "update_first_19_pages",
     "preprocess_pdf"}

\* vocabulary-list.csv can be opened, does not exist, or cannot be read.
VocabSources == {"ok", "missing", "unreadable"}

\* An entry of data.json written by an earlier run.
OldPageResult(k) ==
    [image |-> k, words |-> <<>>, total_words_extracted |-> 0,
     english_words |-> 0, matched_words |-> 0, single_word_matches |-> 0,
     multi_word_matches |-> 0, previous_run |-> TRUE]

\* data.json before update_first_19_pages runs: the pages the script goes
\* over and one page after them.
OldDataJson == [k \in 1..(NumPages + 1) |-> OldPageResult(k)]

(***************************************************************************)
(* Helpers of the page loop.                                               *)
(***************************************************************************)
\* min() and max() over the coordinates of a polygon.
MinOf(S) == CHOOSE m \in S : \A n \in S : m <= n

MaxOf(S) == CHOOSE m \in S : \A n \in S : n <= m

XCoords(polygon) == {polygon[i].x : i \in 1..Len(polygon)}

YCoords(polygon) == {polygon[i].y : i \in 1..Len(polygon)}

\* The dict appended to words for one OCR word.
WordDict(word) ==
    [text |-> word.content,
     x |-> MinOf(XCoords(word.polygon)),
     y |-> MinOf(YCoords(word.polygon)),
     width |-> MaxOf(XCoords(word.polygon)) - MinOf(XCoords(word.polygon)),
     height |-> MaxOf(YCoords(word.polygon)) - MinOf(YCoords(word.polygon)),
     confidence |-> word.confidence]

\* The dict appended to lines for one OCR line.
LineDict(line) ==
    [text |-> line.content,
     x |-> MinOf(XCoords(line.polygon)),
     y |-> MinOf(YCoords(line.polygon)),
     width |-> MaxOf(XCoords(line.polygon)) - MinOf(XCoords(line.polygon)),
     height |-> MaxOf(YCoords(line.polygon)) - MinOf(YCoords(line.polygon))]

\* min() of an empty or missing polygon raises.
GeometryRaises(res) ==
    \/ \E i \in 1..Len(res.words) : res.words[i].polygon = <<>>
    \/ \E i \in 1..Len(res.lines) : res.lines[i].polygon = <<>>

\* preprocess_pdf keeps a word only if word.polygon and len(word.polygon) >= 4.
HasPolygon(word) == word.polygon # <<>> /\ Len(word.polygon) >= 4

\* round(y, 3) of y / h, in thousandths: the nearest one, a tie to the even.
Round3(y, h) ==
    LET n == 1000 * y
        q == n \div h
        r == n % h
    IN  IF 2 * r < h THEN q
        ELSE IF 2 * r > h THEN q + 1
        ELSE IF q % 2 = 0 THEN q ELSE q + 1

\* Any whitespace inside the entry taken for a separator of words.
IsMultiWord_AnyWhitespace(word_lower) ==
    \E i \in 1..Len(word_lower) : word_lower[i] \in Whitespace

\* ' ' in word_lower
IsMultiWord(word_lower) == Contains(word_lower, " ")

\* The membership test without the lowercasing.
IsLearning_NoLower(word, vocab) == word.text \in vocab

\* is_learning = word['text'].lower() in single_word_vocab
IsLearning(word, vocab) == Lower(word.text) \in vocab

\* Every word marked as a learning word.
WithFlag_AlwaysLearning(word, flag) ==
    [text |-> word.text, x |-> word.x, y |-> word.y, width |-> word.width,
     height |-> word.height, confidence |-> word.confidence,
     is_learning_word |-> TRUE]

\* word['is_learning_word'] = flag
WithFlag(word, flag) ==
    [text |-> word.text, x |-> word.x, y |-> word.y, width |-> word.width,
     height |-> word.height, confidence |-> word.confidence,
     is_learning_word |-> flag]

\* The PhraseMatch dict of a vocabulary phrase found in a line.
PhraseMatchDict(vocab_phrase, line) ==
    [text |-> vocab_phrase, x |-> line.x, y |-> line.y, width |-> line.width,
     height |-> line.height, confidence |-> 100, is_learning_word |-> TRUE]

\* The key built from the unrounded y.
MatchKey_Unrounded(page_key, vocab_phrase, line, h) ==
    <<page_key, vocab_phrase, line.y>>

\* match_key = (page_key, vocab_phrase, round(line['y'], 3))
MatchKey(page_key, vocab_phrase, line, h) ==
    <<page_key, vocab_phrase, Round3(line.y, h)>>

\* The loop body keeping, for a key seen before, the box of the later line.
PhraseStep_KeepLast(st, page_key, line, vocab_phrase, h) ==
    IF ~PhraseFound(vocab_phrase, Lower(line.text)) THEN st
    ELSE IF MatchKey(page_key, vocab_phrase, line, h) \notin st.matched_phrases
    THEN [matched_phrases |->
              st.matched_phrases \cup {MatchKey(page_key, vocab_phrase, line, h)},
          multi_word_matches |->
              Append(st.multi_word_matches, PhraseMatchDict(vocab_phrase, line))]
    ELSE [matched_phrases |-> st.matched_phrases,
          multi_word_matches |->
              [k \in DOMAIN st.multi_word_matches |->
                  IF /\ st.multi_word_matches[k].text = vocab_phrase
                     /\ Round3(st.multi_word_matches[k].y, h) = Round3(line.y, h)
                  THEN PhraseMatchDict(vocab_phrase, line)
                  ELSE st.multi_word_matches[k]]]

\* The body of "for vocab_phrase in multi_word_vocab" for one line and one
\* phrase, on the pair (multi_word_matches, matched_phrases).
PhraseStep(st, page_key, line, vocab_phrase, h) ==
    IF /\ PhraseFound(vocab_phrase, Lower(line.text))
       /\ MatchKey(page_key, vocab_phrase, line, h) \notin st.matched_phrases
    THEN [matched_phrases |->
              st.matched_phrases \cup {MatchKey(page_key, vocab_phrase, line, h)},
          multi_word_matches |->
              Append(st.multi_word_matches, PhraseMatchDict(vocab_phrase, line))]
    ELSE st

\* match_vocabulary(words, vocabulary) of preprocess_pdf.
MatchVocabularyList(ws, vocab) ==
    SelectSeq(ws, LAMBDA w : Lower(w.text) \in vocab)

RECURSIVE RunLine(_, _, _, _, _, _)
\* The inner loop for one line, from the k-th phrase of the order on.
RunLine(st, page_key, line, order, k, h) ==
    IF k > Len(order) THEN st
    ELSE RunLine(PhraseStep(st, page_key, line, order[k], h),
                 page_key, line, order, k + 1, h)

RECURSIVE RunLines(_, _, _, _, _, _)
\* The line loop from the i-th line on.
RunLines(st, page_key, ls, order, i, h) ==
    IF i > Len(ls) THEN st
    ELSE RunLines(RunLine(st, page_key, ls[i], order, 1, h),
                  page_key, ls, order, i + 1, h)

\* multi_word_matches after the whole phrase matching of a page whose
\* vocabulary set yields its phrases in the given order.
RunPhraseMatcher(page_key, ls, order, h) ==
    RunLines([matched_phrases |-> {}, multi_word_matches |-> <<>>],
             page_key, ls, order, 1, h).multi_word_matches

\* The orders in which iterating a set can yield its elements.
IterationOrders(S) ==
    {o \in [1..Cardinality(S) -> S] : \A i, j \in DOMAIN o : i # j => o[i] # o[j]}

(***************************************************************************)
(* The state machine.  pc is the position of the script:                   *)
(*   "load"  reading vocabulary-list.csv     "ocr"   about to run OCR      *)
(*   "extract", "filter", "match_single", "match_phrases", "store"         *)
(*           the steps of the page loop      "page_done"  end of its body  *)
(*   "save"  about to write data.json        "done", "crashed"             *)
(*   "load_data"  update_first_19_pages about to read data.json            *)
(* error is the exception that ended the script, "none" if there is none.  *)
(* ocr_calls counts the OCR calls made for the current page, sleeps lists  *)
(* the waits of its retry loop, ocr_log holds the OCR result of every page *)
(* that got one, skipped the pages reported as skipped.                    *)
(***************************************************************************)
NoResult == [words |-> <<>>, lines |-> <<>>, img_width |-> 0, img_height |-> 0]

Init ==
    /\ script \in Scripts
    /\ pc = "load"
    /\ cur_line = <<>>
    /\ lines_read = 0
    /\ single_word_vocab = {}
    /\ multi_word_vocab = {}
    /\ vocabulary = {}
    /\ iter_order = <<>>
    /\ page_num = 0
    /\ result = NoResult
    /\ img_height = 0
    /\ words = <<>>
    /\ lines = <<>>
    /\ english_words = <<>>
    /\ matched_words = <<>>
    /\ single_word_matches = 0
    /\ multi_word_matches = <<>>
    /\ matched_phrases = {}
    /\ line_idx = 0
    /\ phrase_idx = 0
    /\ all_pages_data = <<>>
    /\ data_json = IF script = "update_first_19_pages" THEN OldDataJson ELSE <<>>
    /\ vocab_source \in VocabSources
    /\ error = "none"
    /\ attempt = 0
    /\ retry_delay = 0
    /\ sleeps = <<>>
    /\ ocr_calls = 0
    /\ ocr_log = <<>>
    /\ skipped = {}

\* One iteration of "for line in f" of the vocabulary loading.  The scripts
\* with phrase matching partition the entries; preprocess_pdf keeps one set.
ReadVocabLine(raw) ==
    /\ pc = "load"
    /\ vocab_source = "ok"
    /\ lines_read < MaxVocabLines
    /\ cur_line' = raw
    /\ lines_read' = lines_read + 1
    /\ LET word == Strip(raw)
           word_lower == Lower(word)
           kept == word # <<>> /\ ~StartsWith(word, "#")
       IN  IF script = "preprocess_pdf"
           THEN /\ vocabulary' = IF kept THEN vocabulary \cup {word_lower}
                                 ELSE vocabulary
                /\ UNCHANGED <<single_word_vocab, multi_word_vocab>>
           ELSE /\ multi_word_vocab' =
                       IF kept /\ IsMultiWord(word_lower)
                       THEN multi_word_vocab \cup {word_lower}
                       ELSE multi_word_vocab
                /\ single_word_vocab' =
                       IF kept /\ ~IsMultiWord(word_lower)
                       THEN single_word_vocab \cup {word_lower}
                       ELSE single_word_vocab
                /\ UNCHANGED vocabulary
    /\ UNCHANGED <<script, pc, iter_order, page_num, result, img_height, words,
                   lines, english_words, matched_words, single_word_matches,
                   multi_word_matches, matched_phrases, line_idx, phrase_idx,
                   all_pages_data, data_json>>
    /\ UNCHANGED <<retry_vars, run_vars>>

\* A vocabulary file that cannot be opened taken as an empty vocabulary.
OpenVocabularyFails_EmptyVocabulary ==
    /\ pc = "load"
    /\ vocab_source # "ok"
    /\ pc' = "ocr"
    /\ page_num' = 1
    /\ UNCHANGED <<script, cur_line, lines_read, single_word_vocab,
                   multi_word_vocab, vocabulary, iter_order, result,
                   img_height, words, lines, english_words, matched_words,
                   single_word_matches, multi_word_matches, matched_phrases,
                   line_idx, phrase_idx, all_pages_data, data_json,
                   vocab_source, error, ocr_log, skipped, retry_vars>>

\* open() of the vocabulary file raises and nothing catches it.  (In
\* preprocess_pdf main() itself raises FileNotFoundError for a missing file.)
OpenVocabularyFails ==
    /\ pc = "load"
    /\ vocab_source # "ok"
    /\ pc' = "crashed"
    /\ error' = IF vocab_source = "missing" THEN "FileNotFoundError"
                ELSE "PermissionError"
    /\ UNCHANGED <<script, cur_line, lines_read, single_word_vocab,
                   multi_word_vocab, vocabulary, iter_order, page_num, result,
                   img_height, words, lines, english_words, matched_words,
                   single_word_matches, multi_word_matches, matched_phrases,
                   line_idx, phrase_idx, all_pages_data, data_json,
                   vocab_source, ocr_log, skipped, retry_vars>>

\* The body of the page loop starts for page n.  process_full_book sets up
\* its retry loop: max_retries, retry_delay = 5, result = None.
BeginPage(n) ==
    /\ page_num' = n
    /\ pc' = "ocr"
    /\ ocr_calls' = 0
    /\ IF script = "process_full_book"
       THEN /\ attempt' = 0
            /\ retry_delay' = InitialRetryDelay
            /\ sleeps' = <<>>
            /\ result' = NoResult
       ELSE UNCHANGED <<attempt, retry_delay, sleeps, result>>

\* The page loop goes on with the next page, or is over.
AdvancePage ==
    IF page_num < NumPages
    THEN BeginPage(page_num + 1)
    ELSE /\ pc' = "save"
         /\ UNCHANGED <<page_num, attempt, retry_delay, sleeps, result>>
         /\ ocr_calls' = ocr_calls

\* End of the vocabulary file: vocabulary = single_word_vocab | multi_word_vocab
\* and the page loop starts.  The order in which multi_word_vocab yields its
\* phrases is fixed for the run by the hashes of the strings.  The file
\* iterator is exhausted: there is no current line any more.
FinishLoad ==
    /\ pc = "load"
    /\ vocab_source = "ok"
    /\ vocabulary' = IF script = "preprocess_pdf" THEN vocabulary
                     ELSE single_word_vocab \cup multi_word_vocab
    /\ iter_order' \in IterationOrders(multi_word_vocab)
    /\ cur_line' = <<>>
    /\ IF script = "update_first_19_pages"
       THEN /\ pc' = "load_data"
            /\ UNCHANGED <<page_num, result, retry_vars>>
       ELSE BeginPage(1)
    /\ UNCHANGED <<script, lines_read, single_word_vocab,
                   multi_word_vocab, img_height, words, lines,
                   english_words, matched_words, single_word_matches,
                   multi_word_matches, matched_phrases, line_idx, phrase_idx,
                   all_pages_data, data_json, run_vars>>

\* The data.json of an earlier run read in place of an empty dict.
LoadDataJson_StartEmpty ==
    /\ pc = "load_data"
    /\ all_pages_data' = <<>>
    /\ BeginPage(1)
    /\ UNCHANGED <<script, cur_line, lines_read, single_word_vocab,
                   multi_word_vocab, vocabulary, iter_order, img_height, words,
                   lines, english_words, matched_words, single_word_matches,
                   multi_word_matches, matched_phrases, line_idx, phrase_idx,
                   data_json, run_vars>>

\* update_first_19_pages: all_pages_data = json.load(f) of data.json, then
\* the loop over the pages starts.
LoadDataJson ==
    /\ pc = "load_data"
    /\ all_pages_data' = data_json
    /\ BeginPage(1)
    /\ UNCHANGED <<script, cur_line, lines_read, single_word_vocab,
                   multi_word_vocab, vocabulary, iter_order, img_height, words,
                   lines, english_words, matched_words, single_word_matches,
                   multi_word_matches, matched_phrases, line_idx, phrase_idx,
                   data_json, run_vars>>

\* result = poller.result() for the page: the OCR call succeeds (in
\* process_full_book this leaves the retry loop).
RunOcr(res) ==
    /\ pc = "ocr"
    /\ script = "process_full_book" => attempt < max_retries
    /\ result' = res
    /\ ocr_calls' = ocr_calls + 1
    /\ ocr_log' = [k \in DOMAIN ocr_log \cup {page_num} |->
                       IF k = page_num THEN res ELSE ocr_log[k]]
    /\ pc' = "extract"
    /\ UNCHANGED <<script, cur_line, lines_read, single_word_vocab,
                   multi_word_vocab, vocabulary, iter_order, page_num,
                   img_height, words, lines, english_words, matched_words,
                   single_word_matches, multi_word_matches, matched_phrases,
                   line_idx, phrase_idx, all_pages_data, data_json,
                   vocab_source, error, skipped, attempt, retry_delay, sleeps>>

\* The except branch of the retry loop of process_full_book: before the
\* last attempt sleep retry_delay seconds, double it and try again; after
\* the last one report the page as skipped, and "if result is None:
\* continue" goes to the next page.
RetryOrSkip ==
    IF attempt < max_retries - 1
    THEN /\ sleeps' = Append(sleeps, retry_delay)
         /\ retry_delay' = retry_delay * 2
         /\ attempt' = attempt + 1
         /\ ocr_calls' = ocr_calls + 1
         /\ UNCHANGED <<pc, page_num, result, skipped>>
    ELSE /\ skipped' = skipped \cup {page_num}
         /\ AdvancePage

\* The OCR call raises.  process_full_book catches the exception in its
\* retry loop; in the other scripts nothing catches it.
OcrFails ==
    /\ pc = "ocr"
    /\ IF script = "process_full_book"
       THEN /\ RetryOrSkip
            /\ UNCHANGED error
       ELSE /\ pc' = "crashed"
            /\ error' = "HttpResponseError"
            /\ ocr_calls' = ocr_calls + 1
            /\ UNCHANGED <<page_num, result, skipped, attempt, retry_delay, sleeps>>
    /\ UNCHANGED <<script, cur_line, lines_read, single_word_vocab,
                   multi_word_vocab, vocabulary, iter_order,
                   img_height, words, lines, english_words, matched_words,
                   single_word_matches, multi_word_matches, matched_phrases,
                   line_idx, phrase_idx, all_pages_data, data_json,
                   vocab_source, ocr_log>>

\* The extraction loops over page.words and page.lines.  preprocess_pdf
\* leaves out a word without a polygon of 4 points and reads no lines; the
\* other scripts raise on a missing polygon and the script ends.
ExtractWords ==
    /\ pc = "extract"
    /\ img_height' = result.img_height
    /\ IF script = "preprocess_pdf"
       THEN /\ words' = [i \in 1..Len(SelectSeq(result.words, HasPolygon)) |->
                            WordDict(SelectSeq(result.words, HasPolygon)[i])]
            /\ lines' = <<>>
            /\ pc' = "filter"
            /\ UNCHANGED error
       ELSE IF GeometryRaises(result)
            THEN /\ pc' = "crashed"
                 /\ error' = "TypeError"
                 /\ UNCHANGED <<words, lines>>
            ELSE /\ words' = [i \in 1..Len(result.words) |-> WordDict(result.words[i])]
                 /\ lines' = [i \in 1..Len(result.lines) |-> LineDict(result.lines[i])]
                 /\ pc' = "filter"
                 /\ UNCHANGED error
    /\ UNCHANGED <<script, cur_line, lines_read, single_word_vocab,
                   multi_word_vocab, vocabulary, iter_order, page_num, result,
                   english_words, matched_words, single_word_matches,
                   multi_word_matches, matched_phrases, line_idx, phrase_idx,
                   all_pages_data, data_json, vocab_source, ocr_log, skipped,
                   retry_vars>>

\* english_words = [w for w in words if english_pattern.match(w['text'])]
FilterEnglish ==
    /\ pc = "filter"
    /\ english_words' = SelectSeq(words, LAMBDA w : EnglishPatternMatch(w.text))
    /\ pc' = "match_single"
    /\ UNCHANGED <<script, cur_line, lines_read, single_word_vocab,
                   multi_word_vocab, vocabulary, iter_order, page_num, result,
                   img_height, words, lines, matched_words,
                   single_word_matches, multi_word_matches, matched_phrases,
                   line_idx, phrase_idx, all_pages_data, data_json>>
    /\ UNCHANGED <<retry_vars, run_vars>>

\* The single-word step with multi_word_matches and matched_phrases created
\* once before the page loop and never emptied.
MatchSingleWords_NoReset ==
    /\ pc = "match_single"
    /\ script # "preprocess_pdf"
    /\ english_words' =
           [i \in 1..Len(english_words) |->
               WithFlag(english_words[i],
                        IsLearning(english_words[i], single_word_vocab))]
    /\ single_word_matches' =
           Cardinality({i \in 1..Len(english_words) :
                           IsLearning(english_words[i], single_word_vocab)})
    /\ words' =
           [i \in 1..Len(words) |->
               IF EnglishPatternMatch(words[i].text)
               THEN WithFlag(words[i], IsLearning(words[i], single_word_vocab))
               ELSE words[i]]
    /\ UNCHANGED <<multi_word_matches, matched_phrases>>
    /\ line_idx' = 1
    /\ phrase_idx' = 1
    /\ pc' = "match_phrases"
    /\ UNCHANGED <<script, cur_line, lines_read, single_word_vocab,
                   multi_word_vocab, vocabulary, iter_order, page_num, result,
                   img_height, lines, matched_words, all_pages_data,
                   data_json>>
    /\ UNCHANGED <<retry_vars, run_vars>>

\* The single-word loop; then multi_word_matches = [], matched_phrases = set().
\* english_words holds the very dicts of words, so the flag set on a dict
\* shows in both lists.
MatchSingleWords ==
    /\ pc = "match_single"
    /\ script # "preprocess_pdf"
    /\ english_words' =
           [i \in 1..Len(english_words) |->
               WithFlag(english_words[i],
                        IsLearning(english_words[i], single_word_vocab))]
    /\ single_word_matches' =
           Cardinality({i \in 1..Len(english_words) :
                           IsLearning(english_words[i], single_word_vocab)})
    /\ words' =
           [i \in 1..Len(words) |->
               IF EnglishPatternMatch(words[i].text)
               THEN WithFlag(words[i], IsLearning(words[i], single_word_vocab))
               ELSE words[i]]
    /\ multi_word_matches' = <<>>
    /\ matched_phrases' = {}
    /\ line_idx' = 1
    /\ phrase_idx' = 1
    /\ pc' = "match_phrases"
    /\ UNCHANGED <<script, cur_line, lines_read, single_word_vocab,
                   multi_word_vocab, vocabulary, iter_order, page_num, result,
                   img_height, lines, matched_words, all_pages_data,
                   data_json>>
    /\ UNCHANGED <<retry_vars, run_vars>>

\* preprocess_pdf: matched_words = match_vocabulary(english_words, vocabulary),
\* then every English word is flagged through learning_word_texts.
MatchVocabulary ==
    /\ pc = "match_single"
    /\ script = "preprocess_pdf"
    /\ matched_words' = MatchVocabularyList(english_words, vocabulary)
    /\ LET learning_word_texts ==
               {Lower(matched_words'[i].text) : i \in 1..Len(matched_words')}
       IN  /\ english_words' =
                  [i \in 1..Len(english_words) |->
                      WithFlag(english_words[i],
                               Lower(english_words[i].text) \in learning_word_texts)]
           /\ words' =
                  [i \in 1..Len(words) |->
                      IF EnglishPatternMatch(words[i].text)
                      THEN WithFlag(words[i],
                                    Lower(words[i].text) \in learning_word_texts)
                      ELSE words[i]]
    /\ pc' = "store"
    /\ UNCHANGED <<script, cur_line, lines_read, single_word_vocab,
                   multi_word_vocab, vocabulary, iter_order, page_num, result,
                   img_height, lines, single_word_matches,
                   multi_word_matches, matched_phrases, line_idx, phrase_idx,
                   all_pages_data, data_json>>
    /\ UNCHANGED <<retry_vars, run_vars>>

\* One pass of the inner loop: the phrase iter_order[phrase_idx] against the
\* line lines[line_idx].
MatchPhraseStep ==
    /\ pc = "match_phrases"
    /\ line_idx <= Len(lines)
    /\ phrase_idx <= Len(iter_order)
    /\ LET st == PhraseStep([matched_phrases |-> matched_phrases,
                             multi_word_matches |-> multi_word_matches],
                            page_num, lines[line_idx], iter_order[phrase_idx],
                            img_height)
       IN  /\ matched_phrases' = st.matched_phrases
           /\ multi_word_matches' = st.multi_word_matches
    /\ IF phrase_idx = Len(iter_order)
       THEN line_idx' = line_idx + 1 /\ phrase_idx' = 1
       ELSE line_idx' = line_idx /\ phrase_idx' = phrase_idx + 1
    /\ UNCHANGED <<script, pc, cur_line, lines_read, single_word_vocab,
                   multi_word_vocab, vocabulary, iter_order, page_num, result,
                   img_height, words, lines, english_words, matched_words,
                   single_word_matches, all_pages_data, data_json>>
    /\ UNCHANGED <<retry_vars, run_vars>>

\* The line loop is over (with no phrase in the vocabulary its body does
\* nothing).
PhraseLoopDone ==
    /\ pc = "match_phrases"
    /\ line_idx > Len(lines) \/ Len(iter_order) = 0
    /\ pc' = "store"
    /\ UNCHANGED <<script, cur_line, lines_read, single_word_vocab,
                   multi_word_vocab, vocabulary, iter_order, page_num, result,
                   img_height, words, lines, english_words, matched_words,
                   single_word_matches, multi_word_matches, matched_phrases,
                   line_idx, phrase_idx, all_pages_data, data_json>>
    /\ UNCHANGED <<retry_vars, run_vars>>

\* The entry with the phrase matches put in front of the tokens.
PageResult_PhrasesFirst ==
    [image |-> page_num,
     words |-> IF script = "preprocess_pdf" THEN english_words
               ELSE multi_word_matches \o english_words,
     total_words_extracted |-> Len(words),
     english_words |-> Len(english_words),
     matched_words |-> single_word_matches + Len(multi_word_matches),
     single_word_matches |-> single_word_matches,
     multi_word_matches |-> Len(multi_word_matches)]

\* The page's entry of all_pages_data.
PageResult ==
    IF script = "preprocess_pdf"
    THEN [image |-> page_num,
          words |-> english_words,
          total_words_extracted |-> Len(words),
          english_words |-> Len(english_words),
          matched_words |-> Len(matched_words)]
    ELSE [image |-> page_num,
          words |-> english_words \o multi_word_matches,
          total_words_extracted |-> Len(words),
          english_words |-> Len(english_words),
          matched_words |-> single_word_matches + Len(multi_word_matches),
          single_word_matches |-> single_word_matches,
          multi_word_matches |-> Len(multi_word_matches)]

\* all_pages_data[page_key] = {...}
StorePage ==
    /\ pc = "store"
    /\ all_pages_data' =
           [k \in DOMAIN all_pages_data \cup {page_num} |->
               IF k = page_num THEN PageResult ELSE all_pages_data[k]]
    /\ pc' = "page_done"
    /\ UNCHANGED <<script, cur_line, lines_read, single_word_vocab,
                   multi_word_vocab, vocabulary, iter_order, page_num, result,
                   img_height, words, lines, english_words, matched_words,
                   single_word_matches, multi_word_matches, matched_phrases,
                   line_idx, phrase_idx, data_json>>
    /\ UNCHANGED <<retry_vars, run_vars>>

\* The page loop goes on with the next image, or ends (in process_full_book
\* and update_first_19_pages after time.sleep(0.5), which changes nothing).
NextPage ==
    /\ pc = "page_done"
    /\ AdvancePage
    /\ UNCHANGED <<script, cur_line, lines_read, single_word_vocab,
                   multi_word_vocab, vocabulary, iter_order,
                   img_height, words, lines, english_words, matched_words,
                   single_word_matches, multi_word_matches, matched_phrases,
                   line_idx, phrase_idx, all_pages_data, data_json, run_vars>>

\* json.dump(all_pages_data, f)
SaveDataJson ==
    /\ pc = "save"
    /\ data_json' = all_pages_data
    /\ pc' = "done"
    /\ UNCHANGED <<script, cur_line, lines_read, single_word_vocab,
                   multi_word_vocab, vocabulary, iter_order, page_num, result,
                   img_height, words, lines, english_words, matched_words,
                   single_word_matches, multi_word_matches, matched_phrases,
                   line_idx, phrase_idx, all_pages_data>>
    /\ UNCHANGED <<retry_vars, run_vars>>

Next ==
    \/ \E raw \in VocabLinePool : ReadVocabLine(raw)
    \/ OpenVocabularyFails
    \/ FinishLoad
    \/ LoadDataJson
    \/ \E res \in OcrResults : RunOcr(res)
    \/ OcrFails
    \/ ExtractWords
    \/ FilterEnglish
    \/ MatchSingleWords
    \/ MatchVocabulary
    \/ MatchPhraseStep
    \/ PhraseLoopDone
    \/ StorePage
    \/ NextPage
    \/ SaveDataJson

Spec == Init /\ [][Next]_vars


(***************************************************************************)
(* Properties.                                                             *)
(***************************************************************************)
FullScript == script # "preprocess_pdf"

\* The page loop has stored the entry of the current page.
PageStored == pc = "page_done" /\ page_num \in DOMAIN all_pages_data

\* The text p occurs in the text t from position s on.
OccursAt(p, t, s) ==
    /\ s >= 1
    /\ s + Len(p) - 1 <= Len(t)
    /\ \A k \in 1..Len(p) : t[s + k - 1] = p[k]

\* The step from a state to the next has read one line of the vocabulary
\* file in a script that partitions the vocabulary.
C5_ReadStep == pc = "load" /\ FullScript /\ lines_read' = lines_read + 1

C5_HasWhitespace(t) == \E i \in 1..Len(t) : t[i] \in Whitespace

C5_HasSpace(t) == \E i \in 1..Len(t) : t[i] = " "

\* C5 as stated: every line that is not blank and, trimmed, does not start
\* with '#' goes, trimmed and lowercased, into PhraseVocabulary if it has
\* internal whitespace and into SingleWordVocabulary if it has none, the
\* two sets being disjoint; blank lines and '#' lines change neither set.
C5_Original ==
    [][C5_ReadStep =>
        LET raw == cur_line'
            entry == Lower(Strip(raw))
        IN  IF Strip(raw) = <<>> \/ StartsWith(Strip(raw), "#")
            THEN /\ single_word_vocab' = single_word_vocab
                 /\ multi_word_vocab' = multi_word_vocab
            ELSE /\ single_word_vocab' \cap multi_word_vocab' = {}
                 /\ IF C5_HasWhitespace(entry)
                    THEN /\ multi_word_vocab' = multi_word_vocab \cup {entry}
                         /\ single_word_vocab' = single_word_vocab
                    ELSE /\ single_word_vocab' = single_word_vocab \cup {entry}
                         /\ multi_word_vocab' = multi_word_vocab]_vars

\* C5 (amended): every line that is not blank and, trimmed, does not start
\* with '#' goes, trimmed and lowercased, into exactly one of two disjoint
\* sets: PhraseVocabulary if the entry contains a space character,
\* SingleWordVocabulary if it contains none (an entry whose only internal
\* whitespace is a tab is a single word); blank lines and '#' lines change
\* neither set.
C5_Partition ==
    [][C5_ReadStep =>
        LET raw == cur_line'
            entry == Lower(Strip(raw))
        IN  IF Strip(raw) = <<>> \/ StartsWith(Strip(raw), "#")
            THEN /\ single_word_vocab' = single_word_vocab
                 /\ multi_word_vocab' = multi_word_vocab
            ELSE /\ single_word_vocab' \cap multi_word_vocab' = {}
                 /\ IF C5_HasSpace(entry)
                    THEN /\ multi_word_vocab' = multi_word_vocab \cup {entry}
                         /\ single_word_vocab' = single_word_vocab
                    ELSE /\ single_word_vocab' = single_word_vocab \cup {entry}
                         /\ multi_word_vocab' = multi_word_vocab]_vars

\* A vocabulary with a phrase and a tab-separated entry has been loaded, the
\* line read last being a comment with leading blanks.
C5_Witness ==
    /\ pc = "load"
    /\ FullScript
    /\ cur_line = V_indented_comment
    /\ T_a_tab_b \in single_word_vocab
    /\ T_3_5_mm \in multi_word_vocab

\* The text is one or more ASCII letters and nothing else.
C4_OnlyAsciiLetters(t) == Len(t) >= 1 /\ \A i \in 1..Len(t) : t[i] \in AsciiLetters

\* C4 as stated: the English filter keeps exactly the tokens whose text is
\* one or more ASCII letters and nothing else, in their input order.
C4_FilterKeepsOnlyLetters ==
    pc = "match_single" =>
        english_words = SelectSeq(words, LAMBDA w : C4_OnlyAsciiLetters(w.text))

\* The vocabulary entries without a space character among a set of entries.
C3_SingleWordVocabulary(entries) == {e \in entries : ~C5_HasSpace(e)}

\* C3: in the stored page every token that passed the English filter is
\* flagged iff its lowercase text is in SingleWordVocabulary, in the scripts
\* that test single_word_vocab and in preprocess_pdf, which tests the whole
\* vocabulary.
C3_FlagIffSingleWord ==
    PageStored =>
        LET r == all_pages_data[page_num]
        IN  \A i \in 1..r.english_words :
                r.words[i].is_learning_word <=>
                    Lower(r.words[i].text) \in
                        C3_SingleWordVocabulary(
                            IF FullScript THEN single_word_vocab \cup multi_word_vocab
                            ELSE vocabulary)

\* preprocess_pdf has stored a page with a flagged token written with a
\* capital and an unflagged one, the vocabulary holding a phrase too.
C3_Witness ==
    /\ PageStored
    /\ script = "preprocess_pdf"
    /\ T_index_finger \in vocabulary
    /\ LET r == all_pages_data[page_num]
       IN  /\ \E i \in 1..r.english_words :
                  r.words[i].is_learning_word /\ r.words[i].text = T_Cat
           /\ \E i \in 1..r.english_words : ~r.words[i].is_learning_word

\* The phrase matching of the current page is over.
PhrasesMatched == FullScript /\ pc = "store"

\* multi_word_matches holds a PhraseMatch of the phrase p with the box of the
\* i-th line (the lines of a page have different boxes).
EmittedFor(i, p) ==
    \E k \in 1..Len(multi_word_matches) :
        /\ multi_word_matches[k].text = p
        /\ multi_word_matches[k].x = lines[i].x
        /\ multi_word_matches[k].y = lines[i].y
        /\ multi_word_matches[k].width = lines[i].width
        /\ multi_word_matches[k].height = lines[i].height

C1_IsLetter(c) == c \in AsciiLetters \cup UnicodeLetters

\* p occurs in t with a non-letter, or the start or end of t, right before
\* and right after the occurrence.
C1_OccursBetweenNonLetters(p, t) ==
    \E s \in 1..Len(t) :
        /\ OccursAt(p, t, s)
        /\ s = 1 \/ ~C1_IsLetter(t[s - 1])
        /\ s + Len(p) - 1 = Len(t) \/ ~C1_IsLetter(t[s + Len(p)])

\* p occurs in t at a \b word boundary on both ends: of the first character
\* of the occurrence and the character before it exactly one is a word
\* character (letter, digit or underscore), likewise of its last character
\* and the character after it; outside t there is no word character.
C1_OccursAtWordBoundaries(p, t) ==
    \E s \in 1..Len(t) :
        /\ OccursAt(p, t, s)
        /\ IsWordChar(p[1]) # (s > 1 /\ IsWordChar(t[s - 1]))
        /\ IsWordChar(p[Len(p)]) #
               (s + Len(p) - 1 < Len(t) /\ IsWordChar(t[s + Len(p)]))

\* The i-th line holds p at word boundaries and no earlier line of the page
\* whose y rounds to the same 3 decimals does.
C1_FirstHit(i, p) ==
    /\ C1_OccursAtWordBoundaries(p, Lower(lines[i].text))
    /\ ~\E j \in 1..(i - 1) :
           /\ Round3(lines[j].y, img_height) = Round3(lines[i].y, img_height)
           /\ C1_OccursAtWordBoundaries(p, Lower(lines[j].text))

\* C1 as stated: for every phrase p of PhraseVocabulary and every line l of
\* the page, a PhraseMatch for p is emitted for l iff p occurs in
\* lowercase(l.text) between non-letters or the start/end of the text.
C1_Original ==
    PhrasesMatched =>
        \A i \in 1..Len(lines) : \A p \in multi_word_vocab :
            EmittedFor(i, p) <=> C1_OccursBetweenNonLetters(p, Lower(lines[i].text))

\* C1 (amended): a PhraseMatch for p is emitted for the line l iff p occurs
\* in lowercase(l.text) at a regex word boundary on both ends and no earlier
\* line of the page whose y rounds to the same 3 decimals holds p at word
\* boundaries too.
C1_EmittedIffWordBoundaryMatch ==
    PhrasesMatched =>
        \A i \in 1..Len(lines) : \A p \in multi_word_vocab :
            EmittedFor(i, p) <=> C1_FirstHit(i, p)

\* A page was matched on which a phrase was emitted for one line and, for
\* another line, stands before a digit and was not emitted.
C1_Witness ==
    /\ PhrasesMatched
    /\ T_index_finger \in multi_word_vocab
    /\ \E i, j \in 1..Len(lines) :
           /\ EmittedFor(i, T_index_finger)
           /\ lines[j].text = L_index_finger2
           /\ ~EmittedFor(j, T_index_finger)

\* C2: at every step of the line loop, and in the stored page, no two
\* PhraseMatch items have the same phrase and the same y rounded to 3
\* decimals.
C2_NoDuplicateKey ==
    /\ \A k1, k2 \in 1..Len(multi_word_matches) :
           (/\ multi_word_matches[k1].text = multi_word_matches[k2].text
            /\ Round3(multi_word_matches[k1].y, img_height)
                   = Round3(multi_word_matches[k2].y, img_height))
               => k1 = k2
    /\ (PageStored /\ FullScript) =>
           LET r == all_pages_data[page_num]
           IN  \A k1, k2 \in (r.english_words + 1)..Len(r.words) :
                   (/\ r.words[k1].text = r.words[k2].text
                    /\ Round3(r.words[k1].y, img_height)
                           = Round3(r.words[k2].y, img_height))
                       => k1 = k2

\* Inside the line loop, two lines with different y that round to the same
\* 3 decimals have both been tried against a phrase they hold, and one
\* PhraseMatch stands for them.
C2_Witness ==
    /\ pc = "match_phrases"
    /\ line_idx = 3
    /\ Len(lines) >= 2
    /\ lines[1].y # lines[2].y
    /\ Round3(lines[1].y, img_height) = Round3(lines[2].y, img_height)
    /\ PhraseFound(T_index_finger, Lower(lines[1].text))
    /\ PhraseFound(T_index_finger, Lower(lines[2].text))
    /\ multi_word_vocab = {T_index_finger}
    /\ Len(multi_word_matches) = 1

\* C6: a phrase is matched literally: a PhraseMatch is emitted for a line
\* only if the lowercase line holds the phrase character by character, so
\* "3.5 mm" is emitted for "the 3.5 mm jack" and neither for "35 mm" nor
\* for "3x5 mm".
C6_LiteralMatch ==
    PhrasesMatched =>
        /\ \A i \in 1..Len(lines) : \A p \in multi_word_vocab :
               EmittedFor(i, p) =>
                   \E s \in 1..Len(lines[i].text) : OccursAt(p, Lower(lines[i].text), s)
        /\ T_3_5_mm \in multi_word_vocab =>
               \A i \in 1..Len(lines) :
                   /\ lines[i].text = L_jack => EmittedFor(i, T_3_5_mm)
                   /\ lines[i].text \in {L_35_mm, L_3x5_mm} => ~EmittedFor(i, T_3_5_mm)

\* The page with the lines "the 3.5 mm jack", "35 mm" and "3x5 mm" was
\* matched against a vocabulary with "3.5 mm": one PhraseMatch, for the
\* first line.
C6_Witness ==
    /\ PhrasesMatched
    /\ T_3_5_mm \in multi_word_vocab
    /\ Len(lines) = 3
    /\ lines[1].text = L_jack
    /\ lines[2].text = L_35_mm
    /\ lines[3].text = L_3x5_mm
    /\ EmittedFor(1, T_3_5_mm)
    /\ ~EmittedFor(2, T_3_5_mm)
    /\ ~EmittedFor(3, T_3_5_mm)

\* The line loop, taken step by step, ends with what the whole loop gives
\* for the iteration order of the run.
LoopAgreesWithRun ==
    PhrasesMatched =>
        multi_word_matches = RunPhraseMatcher(page_num, lines, iter_order, img_height)

\* C7 as stated: on the same lines and the same PhraseVocabulary a second
\* run of the Phrase Matcher gives the same PhraseMatch sequence as the
\* first, in whatever order the vocabulary set yields its phrases.
C7_SameSequenceForAnyOrder ==
    PhrasesMatched =>
        \A order \in IterationOrders(multi_word_vocab) :
            RunPhraseMatcher(page_num, lines, order, img_height) = multi_word_matches

\* The box of an item of words, as a tuple.
BoxOf(item) == <<item.x, item.y, item.width, item.height>>

\* The item the scenario expects for the phrase: the box of the line.
C8_ScenarioPhraseMatch ==
    [text |-> T_index_finger, x |-> 100, y |-> 369, width |-> 580,
     height |-> 30, confidence |-> 100, is_learning_word |-> TRUE]

\* The scenario: vocabulary {"cat", "index finger"}, line "the index finger
\* points at the cat" with its seven tokens.
C8_Scenario ==
    /\ PageStored
    /\ FullScript
    /\ single_word_vocab = {T_cat}
    /\ multi_word_vocab = {T_index_finger}
    /\ result.words = WordsScenario
    /\ result.lines = LinesScenario

\* C8: single-word and phrase matching are independent.  The flag of a
\* token is the membership of its lowercase text in SingleWordVocabulary,
\* also for a token that is part of an emitted phrase; the PhraseMatch
\* items are those of the phrases of PhraseVocabulary found in the lines,
\* whatever the tokens are.  In the scenario "cat" is flagged, "index" and
\* "finger" are not, and the one PhraseMatch is "index finger" with the box
\* of the line.
C8_Independent ==
    (PageStored /\ FullScript) =>
        LET r == all_pages_data[page_num]
            n == r.english_words
        IN  /\ \A i \in 1..n :
                   r.words[i].is_learning_word = (Lower(r.words[i].text) \in single_word_vocab)
            /\ {<<r.words[k].text, BoxOf(r.words[k])>> : k \in (n + 1)..Len(r.words)}
                   = {<<h[1], BoxOf(lines[h[2]])>> :
                         h \in {g \in multi_word_vocab \X (1..Len(lines)) :
                                   C1_FirstHit(g[2], g[1])}}
            /\ C8_Scenario =>
                   /\ n = 7
                   /\ \A i \in 1..6 : ~r.words[i].is_learning_word
                   /\ r.words[2].text = T_index
                   /\ r.words[3].text = T_finger
                   /\ r.words[7].text = T_cat
                   /\ r.words[7].is_learning_word
                   /\ Len(r.words) = 8
                   /\ r.words[8] = C8_ScenarioPhraseMatch
                   /\ r.single_word_matches = 1
                   /\ r.multi_word_matches = 1

\* The scenario has been run and its page stored.
C8_Witness ==
    /\ C8_Scenario
    /\ Len(all_pages_data[page_num].words) = 8

\* C9 as stated: in every stored page total_words_extracted is the number
\* of raw OCR tokens of the page, english_words the number of tokens that
\* pass the filter, single_word_matches the number of flagged tokens,
\* multi_word_matches the number of PhraseMatch items and matched_words
\* their sum; english_words <= total_words_extracted and
\* single_word_matches <= english_words.
C9_Counts ==
    PageStored =>
        LET r == all_pages_data[page_num]
            flagged == {i \in 1..r.english_words : r.words[i].is_learning_word}
        IN  /\ r.total_words_extracted = Len(result.words)
            /\ r.english_words =
                   Len(SelectSeq(words, LAMBDA w : EnglishPatternMatch(w.text)))
            /\ r.english_words <= r.total_words_extracted
            /\ IF FullScript
               THEN /\ r.single_word_matches = Cardinality(flagged)
                    /\ r.multi_word_matches = Len(r.words) - r.english_words
                    /\ r.matched_words = r.single_word_matches + r.multi_word_matches
                    /\ r.single_word_matches <= r.english_words
               ELSE r.matched_words = Cardinality(flagged)

\* An item of words is a PhraseMatch: its text holds a space.
C10_IsPhraseMatch(item) == C5_HasSpace(item.text)

\* C10: the words of a stored page are the filtered tokens in their OCR
\* order followed by the PhraseMatch items in the order they were emitted:
\* no PhraseMatch stands before a token, and len(words) = english_words +
\* multi_word_matches.
C10_TokensThenPhrases ==
    (PageStored /\ FullScript) =>
        LET r == all_pages_data[page_num]
            n == r.english_words
            kept == SelectSeq(words, LAMBDA w : EnglishPatternMatch(w.text))
        IN  /\ Len(r.words) = r.english_words + r.multi_word_matches
            /\ n = Len(kept)
            /\ \A i \in 1..n :
                   /\ ~C10_IsPhraseMatch(r.words[i])
                   /\ r.words[i].text = kept[i].text
                   /\ BoxOf(r.words[i]) = BoxOf(kept[i])
            /\ \A k \in 1..r.multi_word_matches :
                   /\ C10_IsPhraseMatch(r.words[n + k])
                   /\ r.words[n + k] = multi_word_matches[k]
            /\ \A i, j \in 1..Len(r.words) :
                   (C10_IsPhraseMatch(r.words[i]) /\ ~C10_IsPhraseMatch(r.words[j])) => j < i

\* A page with tokens and two PhraseMatch items has been stored.
C10_Witness ==
    /\ PageStored
    /\ FullScript
    /\ all_pages_data[page_num].english_words >= 1
    /\ all_pages_data[page_num].multi_word_matches >= 2

(***************************************************************************)
(* C11: a vocabulary file that is missing or unreadable.                   *)
(***************************************************************************)
\* The run has not gone past the loading of the vocabulary: no page was
\* begun, no OCR call made, no PageResult built, data.json not written.
NothingProcessed ==
    /\ page_num = 0
    /\ ocr_calls = 0
    /\ ocr_log = <<>>
    /\ result = NoResult
    /\ all_pages_data = <<>>
    /\ words = <<>> /\ multi_word_matches = <<>>
    /\ data_json = IF script = "update_first_19_pages" THEN OldDataJson
                   ELSE <<>>

\* C11 as stated: when the vocabulary source is missing or unreadable the
\* run fails with ConfigError and aborts before any page is processed (no
\* OCR call, no PageResult, no data.json).
C11_Original ==
    vocab_source # "ok" =>
        /\ pc \in {"load", "crashed"}
        /\ NothingProcessed
        /\ pc = "crashed" => error = "ConfigError"

\* C11, amended: when the vocabulary source is missing or unreadable the
\* run ends with the uncaught exception of the failed open
\* (FileNotFoundError or PermissionError, there is no ConfigError) before
\* any page is processed: no OCR call is made, no PageResult is built and
\* data.json is not written.
C11_AbortsBeforeAnyPage ==
    vocab_source # "ok" =>
        /\ pc \in {"load", "crashed"}
        /\ NothingProcessed
        /\ pc = "crashed" =>
               error = IF vocab_source = "missing" THEN "FileNotFoundError"
                       ELSE "PermissionError"

\* A run has ended on a vocabulary file that does not exist.
C11_Witness ==
    /\ pc = "crashed"
    /\ vocab_source = "missing"
    /\ error = "FileNotFoundError"

(***************************************************************************)
(* C12: OCR words and lines without geometry.                              *)
(***************************************************************************)
\* The OCR words of the current page that have no polygon of four points.
WordsLackingGeometry ==
    {i \in 1..Len(ocr_log[page_num].words) :
        ~HasPolygon(ocr_log[page_num].words[i])}

\* C12: an OCR word that lacks geometry (no polygon, or fewer than 4 points)
\* is never silently skipped: no PageResult is stored whose
\* total_words_extracted leaves such a word of the page out.
C12_NoSilentSkip ==
    (PageStored /\ WordsLackingGeometry # {}) =>
        all_pages_data[page_num].total_words_extracted =
            Len(ocr_log[page_num].words)

(***************************************************************************)
(* C13: the outcome of each page at the end of a run.                      *)
(***************************************************************************)
\* The run is over, with data.json written or with an uncaught exception.
RunOver == pc \in {"done", "crashed"}

\* Page p was reported as failed: skipped after the OCR retries, or the
\* page on which the exception was raised.
PageFailed(p) == p \in skipped \/ (pc = "crashed" /\ p = page_num)

\* C13: at the end of a run of process_full_book or regenerate_data every
\* page that was begun has exactly one of two outcomes: its full PageResult
\* is in the output, or it failed and has no entry; so a failure on one
\* page leaves the results of the other pages in the output.
C13_PerPageOutcome ==
    (RunOver /\ script \in {"process_full_book", "regenerate_data"}) =>
        \A p \in 1..page_num :
            IF PageFailed(p)
            THEN p \notin DOMAIN data_json
            ELSE /\ p \in DOMAIN all_pages_data
                 /\ p \in DOMAIN data_json
                 /\ data_json[p] = all_pages_data[p]

(***************************************************************************)
(* C14: several lines of a page with the same phrase and rounded y.        *)
(***************************************************************************)
\* The lines of the page that hold the phrase p and whose y rounds to r.
C14_Hits(p, r) ==
    {i \in 1..Len(lines) :
        /\ PhraseFound(p, Lower(lines[i].text))
        /\ Round3(lines[i].y, img_height) = r}

\* The items of multi_word_matches for the phrase p at the rounded y r.
C14_Items(p, r) ==
    {k \in 1..Len(multi_word_matches) :
        /\ multi_word_matches[k].text = p
        /\ Round3(multi_word_matches[k].y, img_height) = r}

\* C14: when one or several lines of a page match the same phrase and have
\* the same y rounded to 3 decimals, exactly one PhraseMatch stands for
\* them: its text is the lowercase phrase, its box that of the first such
\* line in line order, its confidence 1.0 and is_learning_word true; lines
\* with another rounded y have a PhraseMatch of their own.
C14_OneMatchPerRoundedY ==
    PhrasesMatched =>
        \A p \in multi_word_vocab :
            \A r \in {Round3(lines[i].y, img_height) : i \in 1..Len(lines)} :
                C14_Hits(p, r) # {} =>
                    LET first == lines[MinOf(C14_Hits(p, r))]
                    IN  /\ Cardinality(C14_Items(p, r)) = 1
                        /\ \A k \in C14_Items(p, r) :
                               multi_word_matches[k] =
                                   [text |-> Lower(p), x |-> first.x,
                                    y |-> first.y, width |-> first.width,
                                    height |-> first.height,
                                    confidence |-> 100,
                                    is_learning_word |-> TRUE]

\* A page was matched on which two lines hold a phrase at the same rounded
\* y and a third line holds it at another rounded y.
C14_Witness ==
    /\ PhrasesMatched
    /\ \E p \in multi_word_vocab : \E i, j, k \in 1..Len(lines) :
           /\ i < j
           /\ {i, j} \subseteq C14_Hits(p, Round3(lines[i].y, img_height))
           /\ lines[i].y # lines[j].y
           /\ k \in C14_Hits(p, Round3(lines[k].y, img_height))
           /\ Round3(lines[k].y, img_height) # Round3(lines[i].y, img_height)
           /\ Len(multi_word_matches) = 2

(***************************************************************************)
(* C15: nothing of the matching crosses pages.                             *)
(***************************************************************************)
\* The pages whose PageResult was computed and stored in this run.
ProcessedPages ==
    {p \in DOMAIN ocr_log \cap DOMAIN all_pages_data :
        p < page_num \/ pc \in {"page_done", "save", "done"}}

\* A PageResult without the name of its page.
C15_Content(r) == [r EXCEPT !.image = 0]

\* C15: the PageResult of a page depends only on the OCR tokens and lines
\* of that page and on the vocabulary, not on the pages before it or on
\* its place in the run: two pages of a run with the same OCR result have
\* the same PageResult (but for the page name), so a phrase at the same
\* rounded y on two pages is emitted on both.
C15_PageResultIndependent ==
    \A p, q \in ProcessedPages :
        ocr_log[p] = ocr_log[q] =>
            C15_Content(all_pages_data[p]) = C15_Content(all_pages_data[q])

\* Two pages with the same OCR result were processed one after the other
\* and both hold the PhraseMatch items of the same phrase.
C15_Witness ==
    /\ FullScript
    /\ {1, 2} \subseteq ProcessedPages
    /\ ocr_log[1] = ocr_log[2]
    /\ all_pages_data[1].multi_word_matches >= 2
    /\ all_pages_data[2].multi_word_matches >= 2
    /\ all_pages_data[1].image # all_pages_data[2].image

(***************************************************************************)
(* C16: the OCR retry loop of process_full_book.                           *)
(***************************************************************************)
\* process_full_book is about to call OCR for the current page.
C16_AboutToCallOcr == script = "process_full_book" /\ pc = "ocr"

\* The retry loop itself: at most max_retries OCR calls for a page, none
\* after a success; a wait of 5 s after the first failure, of 10 s after the
\* second, none after the third; a page whose three calls fail is reported
\* as skipped, gets no entry, and the loop goes to the next page with a
\* fresh counter and delay, or to the writing of data.json after the last
\* page.
C16_RetryLoop ==
    [][C16_AboutToCallOcr =>
          /\ ocr_calls < max_retries
          /\ ocr_calls = attempt
          /\ sleeps = [k \in 1..ocr_calls |-> IF k = 1 THEN 5 ELSE 10]
          /\ pc' = "extract" =>
                 /\ page_num' = page_num /\ sleeps' = sleeps
                 /\ ocr_calls' = ocr_calls + 1
          /\ (pc' # "extract" /\ ocr_calls = 0) =>
                 /\ pc' = "ocr" /\ page_num' = page_num /\ sleeps' = <<5>>
          /\ (pc' # "extract" /\ ocr_calls = 1) =>
                 /\ pc' = "ocr" /\ page_num' = page_num /\ sleeps' = <<5, 10>>
          /\ (pc' # "extract" /\ ocr_calls = 2) =>
                 /\ sleeps' \in {<<5, 10>>, <<>>}
                 /\ page_num \in skipped'
                 /\ page_num \notin DOMAIN all_pages_data'
                 /\ IF page_num < NumPages
                    THEN /\ pc' = "ocr" /\ page_num' = page_num + 1
                         /\ attempt' = 0 /\ retry_delay' = 5
                         /\ sleeps' = <<>> /\ ocr_calls' = 0
                    ELSE pc' = "save"]_vars

\* C16: in process_full_book, once the vocabulary is loaded, the page loop
\* always proceeds to the next page and the run goes on to write data.json:
\* it never ends with an exception.
C16_LoopAlwaysProceeds ==
    (script = "process_full_book" /\ vocab_source = "ok") => pc # "crashed"

(***************************************************************************)
(* C17: what update_first_19_pages changes in data.json.                   *)
(***************************************************************************)
\* The pages update_first_19_pages goes over: range(1, 20), here 1..NumPages.
UpdatedPages == 1..NumPages

\* C17: update_first_19_pages changes only the entries of the pages it goes
\* over: until the run has succeeded data.json is as it was (also when a
\* page raises), and after success every other key keeps its value and
\* the keys of the updated pages hold the PageResults computed in this run.
C17_OnlyUpdatedPagesChange ==
    script = "update_first_19_pages" =>
        IF pc # "done"
        THEN data_json = OldDataJson
        ELSE /\ DOMAIN data_json = DOMAIN OldDataJson \cup UpdatedPages
             /\ \A k \in DOMAIN OldDataJson \ UpdatedPages :
                    data_json[k] = OldDataJson[k]
             /\ \A k \in UpdatedPages :
                    /\ k \in ProcessedPages
                    /\ data_json[k] = all_pages_data[k]
                    /\ data_json[k] # OldDataJson[k]
                    /\ data_json[k].image = k
                    /\ data_json[k].total_words_extracted =
                           Len(ocr_log[k].words)

\* update_first_19_pages has written data.json: a page after the updated
\* ones still has its old entry and page 1 a new one with words in it.
C17_Witness ==
    /\ script = "update_first_19_pages"
    /\ pc = "done"
    /\ data_json[NumPages + 1] = OldPageResult(NumPages + 1)
    /\ data_json[1].total_words_extracted >= 1
    /\ data_json[1] # OldPageResult(1)

====
